---- MODULE Spec2Model ----
(***************************************************************************)
(* The three sample Flask applications of getlawrence/cli and the tracing  *)
(* pipeline they wire up.                                                  *)
(*                                                                         *)
(*   "plain"  : src/examples/python/app.py                                 *)
(*   "sample" : src/examples/python-sample/app.py                          *)
(*   "json"   : src/testdata/sample_projects/python_otel_project/app.py    *)
(*                                                                         *)
(* One process runs one variant.  The module body (imports, tracing        *)
(* initialisation, app.run) is the start-up; every request is served by    *)
(* its own thread, whose steps interleave with those of other requests and *)
(* with the batch processor's export worker.                               *)
(***************************************************************************)
EXTENDS Integers, Sequences, FiniteSets, TLC

\* Number of requests one behaviour serves (they may overlap).
MaxReq == 2
\* Number of times the tracing initialisation block may run in SpecReinit.
MaxInit == 2

Req == 1..MaxReq

Variants == {"plain", "sample", "json"}
\* Variants whose module body initialises OpenTelemetry itself.
Traced == {"sample", "json"}

Paths == {"/", "/health", "/api/data"}

VARIABLES
    variant,      \* which app.py this process runs
    phase,        \* "boot", "loaded", "ready", "serving", "crashed"
    tracing,      \* TRUE when spans are recorded (tracing is active)
    providerSet,  \* TRUE once trace.set_tracer_provider has taken effect
    processors,   \* the provider's span processors: sequence of exporter names
    instrumented, \* TRUE once Flask and requests are auto-instrumented
    initCount,    \* how many times the initialisation block has run
    queue,        \* per processor: ended spans waiting for the export worker
    exporter,     \* per processor: "up", "failed" or "stuck" (last export)
    pc,           \* per request: position of its thread
    path,         \* per request: requested path
    up,           \* per request: outcome of the outbound GET
    resp,         \* per request: the response sent
    current,      \* per context slot: the active span
    spans         \* per span id: its record

vars == <<variant, phase, tracing, providerSet, processors, instrumented,
          initCount, queue, exporter, pc, path, up, resp, current, spans>>

startupVars == <<variant, phase, tracing, providerSet, processors,
                 instrumented, initCount>>
exportVars == <<queue, exporter>>
requestVars == <<pc, path, up, resp, current, spans>>

----------------------------------------------------------------------------
(* Bodies.  A body is text: a sequence of words, or a JSON document given  *)
(* by its members in document order and its layout.                        *)

NoBody == [kind |-> "none", words |-> <<>>, pairs |-> <<>>, pretty |-> FALSE]
TextBody(words) ==
    [kind |-> "text", words |-> words, pairs |-> <<>>, pretty |-> FALSE]
JsonBody(pairs, pretty) ==
    [kind |-> "json", words |-> <<>>, pairs |-> pairs, pretty |-> pretty]
ErrorPage == [kind |-> "error", words |-> <<>>, pairs |-> <<>>, pretty |-> FALSE]

\* Keys in the order sort_keys puts them.
KeyOrder == <<"id", "message", "status", "title">>

\* response.json(): the object a JSON document denotes (a repeated key keeps
\* its last value).
ParseJson(body) ==
    LET keys == {body.pairs[i][1] : i \in DOMAIN body.pairs}
        last(k) == CHOOSE i \in DOMAIN body.pairs :
                      /\ body.pairs[i][1] = k
                      /\ \A j \in DOMAIN body.pairs :
                            body.pairs[j][1] = k => j <= i
    IN  [k \in keys |-> body.pairs[last(k)][2]]

\* app.run(debug=True)
Debug == TRUE

\* A serialiser that wraps the object instead of writing its members.
JsonifyWrapped(obj) ==
    JsonBody(<< <<"data", "object">> >>, Debug)

\* jsonify(obj): the document Flask writes for an object: keys sorted,
\* indented when the app runs in debug mode.
Jsonify(obj) ==
    LET ks == SelectSeq(KeyOrder, LAMBDA k : k \in DOMAIN obj)
    IN  JsonBody([i \in DOMAIN ks |-> <<ks[i], obj[ks[i]]>>], Debug)

IsJson(body) == body.kind = "json"

----------------------------------------------------------------------------
(* Routes and handlers.                                                    *)

\* Route tables without the /health rules.
HandlerWithoutHealth(v, p) ==
    CASE v = "plain"  /\ p = "/"         -> "hello"
      [] v = "sample" /\ p = "/"         -> "hello"
      [] v = "json"   /\ p = "/"         -> "hello"
      [] v = "json"   /\ p = "/api/data" -> "get_data"
      [] OTHER                           -> "none"

\* @app.route tables: path -> view function, "none" when no route matches.
Handler(v, p) ==
    CASE v = "plain"  /\ p = "/"         -> "hello"
      [] v = "plain"  /\ p = "/health"   -> "health"
      [] v = "sample" /\ p = "/"         -> "hello"
      [] v = "sample" /\ p = "/health"   -> "health"
      [] v = "json"   /\ p = "/"         -> "hello"
      [] v = "json"   /\ p = "/api/data" -> "get_data"
      [] OTHER                           -> "none"

\* Name given to start_as_current_span by each view function.
SpanName(v, h) ==
    CASE v = "sample" /\ h = "hello"    -> "hello-handler"
      [] v = "sample" /\ h = "health"   -> "health-check"
      [] v = "json"   /\ h = "hello"    -> "hello-span"
      [] v = "json"   /\ h = "get_data" -> "get-data-span"
      [] OTHER                          -> ""

\* Exporter each variant hands to its BatchSpanProcessor.
ExporterOf(v) == IF v = "json" THEN "jaeger" ELSE "console"

\* Outcome of requests.get(...).
NoUp == [kind |-> "none", body |-> NoBody]
Refused == [kind |-> "refused", body |-> NoBody]
Reply(b) == [kind |-> "reply", body |-> b]

\* Bodies the upstream may answer with: a compact document, an indented
\* one with unsorted and repeated keys, and one that is not JSON.
UpstreamBodies ==
    { JsonBody(<< <<"id", "1">> >>, FALSE),
      JsonBody(<< <<"title", "a">>, <<"id", "1">>, <<"id", "2">> >>, TRUE),
      TextBody(<<"<html>">>) }

UpstreamOutcomes == {Refused} \cup {Reply(b) : b \in UpstreamBodies}

NoResp == [status |-> 0, body |-> NoBody]
Ok(body) == [status |-> 200, body |-> body]
\* An exception leaving a view function: Flask answers 500.
ServerError == [status |-> 500, body |-> ErrorPage]
\* No route matches: Flask answers 404.
NotFound == [status |-> 404, body |-> ErrorPage]

\* View functions that swallow a failed outbound call and answer 200.
ViewResultSwallow(v, h, u) ==
    CASE h = "hello" /\ v = "plain" ->
            Ok(TextBody(<<"Hello,", "from", "Python!">>))
      [] h = "hello" /\ v = "sample" ->
            Ok(TextBody(<<"Hello,", "OpenTelemetry", "from", "Python!">>))
      [] h = "hello" /\ v = "json" ->
            Ok(Jsonify([message |-> "Hello World!"]))
      [] h = "health" ->
            Ok(Jsonify([status |-> "healthy"]))
      [] h = "get_data" ->
            IF u.kind = "reply" /\ IsJson(u.body)
            THEN Ok(Jsonify(ParseJson(u.body)))
            ELSE Ok(Jsonify(<<>>))
      [] OTHER -> NotFound

\* What a view function returns, or the 500 Flask answers when it raises;
\* for get_data, u is the outcome of the outbound GET.
ViewResult(v, h, u) ==
    CASE h = "hello" /\ v = "plain" ->
            Ok(TextBody(<<"Hello,", "from", "Python!">>))
      [] h = "hello" /\ v = "sample" ->
            Ok(TextBody(<<"Hello,", "OpenTelemetry", "from", "Python!">>))
      [] h = "hello" /\ v = "json" ->
            Ok(Jsonify([message |-> "Hello World!"]))
      [] h = "health" ->
            Ok(Jsonify([status |-> "healthy"]))
      [] h = "get_data" ->
            IF u.kind = "reply" /\ IsJson(u.body)
            THEN Ok(Jsonify(ParseJson(u.body)))
            ELSE ServerError
      [] OTHER -> NotFound

\* A view function that needs a recording span to answer.
RespondOnlyTraced(v, h, active, u) ==
    IF active \/ h = "none" THEN ViewResult(v, h, u) ELSE ServerError

\* The response of view function h run inside its span scope, with tracing
\* active or not: the scope takes no part in the result.
Respond(v, h, active, u) == ViewResult(v, h, u)

----------------------------------------------------------------------------
(* Spans and the context.                                                  *)

Levels == {"server", "handler", "client"}
SpanId == Req \X Levels
NoSpan == <<0, "none">>
NoSpanRec ==
    [st |-> "none", name |-> "", parent |-> NoSpan, ends |-> 0,
     status |-> "unset"]

\* One context slot shared by all request threads.
CtxSlotShared(r) == 1

\* The context is thread-local: every request thread has its own slot.
CtxSlot(r) == r

\* tracer.start_as_current_span: a span nested under the active one, which
\* becomes the active span.
SpansAfterStart(r, level, name) ==
    [spans EXCEPT ![<<r, level>>] =
        [st |-> "open", name |-> name, parent |-> current[CtxSlot(r)],
         ends |-> 0, status |-> "unset"]]
CurrentAfterStart(r, level) ==
    [current EXCEPT ![CtxSlot(r)] = <<r, level>>]

\* A scope that ends its span on return only.
SpansAfterExitOnReturn(r, level, failed) ==
    IF failed
    THEN spans
    ELSE [spans EXCEPT ![<<r, level>>] =
            [@ EXCEPT !.st = "ended", !.ends = @ + 1]]

\* Leaving the with block: the span is ended (with error status when an
\* exception leaves the block) and the context it replaced is restored.
SpansAfterExit(r, level, failed) ==
    [spans EXCEPT ![<<r, level>>] =
        [@ EXCEPT !.st = "ended", !.ends = @ + 1,
                  !.status = IF failed THEN "error" ELSE "unset"]]
CurrentAfterExit(r, level) ==
    [current EXCEPT ![CtxSlot(r)] = spans[<<r, level>>].parent]

\* BatchSpanProcessor.on_end: the ended span is put on the queue of every
\* attached processor; nothing is exported here.
QueueAfterEnd(id) ==
    [p \in DOMAIN queue |->
        IF p <= Len(processors) THEN queue[p] \cup {id} ELSE queue[p]]

----------------------------------------------------------------------------
Init ==
    /\ variant \in Variants
    /\ phase = "boot"
    /\ tracing = FALSE
    /\ providerSet = FALSE
    /\ processors = <<>>
    /\ instrumented = FALSE
    /\ initCount = 0
    /\ queue = [p \in 1..MaxInit |-> {}]
    /\ exporter = [p \in 1..MaxInit |-> "up"]
    /\ pc = [r \in Req |-> "idle"]
    /\ path = [r \in Req |-> ""]
    /\ up = [r \in Req |-> NoUp]
    /\ resp = [r \in Req |-> NoResp]
    /\ current = [r \in Req |-> NoSpan]
    /\ spans = [id \in SpanId |-> NoSpanRec]

(* Start-up: the module body. *)

\* The imports at the top of the module.  Only the plain variant guards
\* its tracing import with try/except.
LoadTracing(found) ==
    /\ phase = "boot"
    /\ IF variant = "plain"
       THEN /\ phase' = "ready"
            /\ tracing' = found
       ELSE /\ phase' = IF found THEN "loaded" ELSE "crashed"
            /\ tracing' = tracing
    /\ UNCHANGED <<variant, providerSet, processors, instrumented, initCount>>
    /\ UNCHANGED <<exportVars, requestVars>>

\* The "Initialize OpenTelemetry" block: set the provider (which takes
\* effect only the first time), attach a batch processor with the
\* variant's exporter and, in the JSON variant, instrument Flask and
\* requests.  Outcome "ok" leaves tracing active; with "disabled" the SDK
\* is switched off by the environment and the provider hands out no-op
\* spans; "error" is an exception raised by the block.
InitBlock(outcome) ==
    /\ providerSet' = TRUE
    /\ processors' = Append(processors, ExporterOf(variant))
    /\ instrumented' = (variant = "json")
    /\ initCount' = initCount + 1
    /\ tracing' = IF providerSet THEN tracing ELSE (outcome = "ok")

Initialize(outcome) ==
    /\ phase = "loaded"
    /\ IF outcome = "error"
       THEN /\ phase' = "crashed"
            /\ UNCHANGED <<tracing, providerSet, processors, instrumented,
                           initCount>>
       ELSE /\ phase' = "ready"
            /\ InitBlock(outcome)
    /\ UNCHANGED <<variant, exportVars, requestVars>>

\* A second initialisation that raises because a provider is already set.
ReinitializeRaises ==
    /\ phase = "ready"
    /\ variant \in Traced
    /\ initCount < MaxInit
    /\ phase' = "crashed"
    /\ initCount' = initCount + 1
    /\ UNCHANGED <<variant, tracing, providerSet, processors, instrumented>>
    /\ UNCHANGED <<exportVars, requestVars>>

\* The initialisation block run a second time in the same process.
Reinitialize ==
    /\ phase = "ready"
    /\ variant \in Traced
    /\ initCount < MaxInit
    /\ InitBlock("ok")
    /\ UNCHANGED <<variant, phase, exportVars, requestVars>>

\* app.run(debug=True, port=5000)
Run ==
    /\ phase = "ready"
    /\ phase' = "serving"
    /\ UNCHANGED <<variant, tracing, providerSet, processors, instrumented,
                   initCount, exportVars, requestVars>>

----------------------------------------------------------------------------
(* Requests.  Spans are recorded only while tracing is active; otherwise   *)
(* start_as_current_span hands out a no-op span and nothing is recorded.   *)

\* Flask receives a request and matches its path; the Flask
\* instrumentation, when installed, opens the server span around it.
Arrive(r, p) ==
    /\ phase = "serving"
    /\ pc[r] = "idle"
    /\ \A q \in Req : q < r => pc[q] # "idle"
    /\ path' = [path EXCEPT ![r] = p]
    /\ IF tracing /\ instrumented
       THEN /\ spans' = SpansAfterStart(r, "server", p)
            /\ current' = CurrentAfterStart(r, "server")
       ELSE UNCHANGED <<spans, current>>
    /\ IF Handler(variant, p) = "none"
       THEN /\ resp' = [resp EXCEPT ![r] = NotFound]
            /\ pc' = [pc EXCEPT ![r] = "teardown"]
       ELSE /\ resp' = resp
            /\ pc' = [pc EXCEPT ![r] =
                        IF variant = "plain" THEN "body" ELSE "enter"]
    /\ UNCHANGED <<up, startupVars, exportVars>>

\* A view function that attaches a span processor of its own on entry.
EnterSpanAttaching(r) ==
    /\ pc[r] = "enter"
    /\ pc' = [pc EXCEPT ![r] = "body"]
    /\ Len(processors) < MaxInit
    /\ processors' = Append(processors, ExporterOf(variant))
    /\ IF tracing
       THEN /\ spans' = SpansAfterStart(r, "handler",
                            SpanName(variant, Handler(variant, path[r])))
            /\ current' = CurrentAfterStart(r, "handler")
       ELSE UNCHANGED <<spans, current>>
    /\ UNCHANGED <<path, up, resp, exportVars>>
    /\ UNCHANGED <<variant, phase, tracing, providerSet, instrumented, initCount>>

\* with tracer.start_as_current_span(name):
EnterSpan(r) ==
    /\ pc[r] = "enter"
    /\ pc' = [pc EXCEPT ![r] = "body"]
    /\ IF tracing
       THEN /\ spans' = SpansAfterStart(r, "handler",
                            SpanName(variant, Handler(variant, path[r])))
            /\ current' = CurrentAfterStart(r, "handler")
       ELSE UNCHANGED <<spans, current>>
    /\ UNCHANGED <<path, up, resp, startupVars, exportVars>>

\* The return statement of hello and health.
ReturnBody(r) ==
    /\ pc[r] = "body"
    /\ Handler(variant, path[r]) \in {"hello", "health"}
    /\ resp' = [resp EXCEPT ![r] =
                  Respond(variant, Handler(variant, path[r]), tracing, up[r])]
    /\ pc' = [pc EXCEPT ![r] = IF variant = "plain" THEN "teardown" ELSE "exit"]
    /\ UNCHANGED <<path, up, current, spans, startupVars, exportVars>>

\* get_data: requests.get(...) is sent; the requests instrumentation opens
\* the client span around the call.
SendUpstream(r) ==
    /\ pc[r] = "body"
    /\ Handler(variant, path[r]) = "get_data"
    /\ pc' = [pc EXCEPT ![r] = "wait"]
    /\ IF tracing /\ instrumented
       THEN /\ spans' = SpansAfterStart(r, "client", "GET")
            /\ current' = CurrentAfterStart(r, "client")
       ELSE UNCHANGED <<spans, current>>
    /\ UNCHANGED <<path, up, resp, startupVars, exportVars>>

\* response = requests.get(...) returns or raises and the client span ends;
\* then return jsonify(response.json()).
UpstreamReply(r, u) ==
    /\ pc[r] = "wait"
    /\ up' = [up EXCEPT ![r] = u]
    /\ IF tracing /\ instrumented
       THEN /\ spans' = SpansAfterExit(r, "client", u.kind = "refused")
            /\ current' = CurrentAfterExit(r, "client")
            /\ queue' = QueueAfterEnd(<<r, "client">>)
       ELSE UNCHANGED <<spans, current, queue>>
    /\ resp' = [resp EXCEPT ![r] = Respond(variant, "get_data", tracing, u)]
    /\ pc' = [pc EXCEPT ![r] = "exit"]
    /\ UNCHANGED <<path, exporter, startupVars>>

\* A scope whose exit exports the span itself: it waits for the exporter.
ExitSpanSync(r) ==
    /\ pc[r] = "exit"
    /\ tracing => \A p \in 1..Len(processors) : exporter[p] # "stuck"
    /\ pc' = [pc EXCEPT ![r] = "teardown"]
    /\ IF tracing
       THEN /\ spans' = SpansAfterExit(r, "handler", resp[r].status = 500)
            /\ current' = CurrentAfterExit(r, "handler")
       ELSE UNCHANGED <<spans, current>>
    /\ UNCHANGED <<path, up, resp, queue, exporter, startupVars>>

\* Control leaves the with block, by return or by exception.
ExitSpan(r) ==
    /\ pc[r] = "exit"
    /\ pc' = [pc EXCEPT ![r] = "teardown"]
    /\ IF tracing
       THEN /\ spans' = SpansAfterExit(r, "handler", resp[r].status = 500)
            /\ current' = CurrentAfterExit(r, "handler")
            /\ queue' = QueueAfterEnd(<<r, "handler">>)
       ELSE UNCHANGED <<spans, current, queue>>
    /\ UNCHANGED <<path, up, resp, exporter, startupVars>>

\* Flask sends the response; the Flask instrumentation closes the server
\* span.
Finish(r) ==
    /\ pc[r] = "teardown"
    /\ pc' = [pc EXCEPT ![r] = "done"]
    /\ IF tracing /\ instrumented
       THEN /\ spans' = SpansAfterExit(r, "server", resp[r].status = 500)
            /\ current' = CurrentAfterExit(r, "server")
            /\ queue' = QueueAfterEnd(<<r, "server">>)
       ELSE UNCHANGED <<spans, current, queue>>
    /\ UNCHANGED <<path, up, resp, exporter, startupVars>>

\* One step of request r's thread.
Step(r) ==
    \/ \E p \in Paths : Arrive(r, p)
    \/ EnterSpan(r)
    \/ ReturnBody(r)
    \/ SendUpstream(r)
    \/ \E u \in UpstreamOutcomes : UpstreamReply(r, u)
    \/ ExitSpan(r)
    \/ Finish(r)

(* The batch processor's worker thread. *)

\* The worker of processor p takes the queued spans and calls the exporter,
\* which succeeds ("up"), fails (the batch is lost) or never returns.
Export(p, outcome) ==
    /\ p \in 1..Len(processors)
    /\ exporter[p] # "stuck"
    /\ queue[p] # {}
    /\ queue' = [queue EXCEPT ![p] = {}]
    /\ exporter' = [exporter EXCEPT ![p] = outcome]
    /\ UNCHANGED <<startupVars, requestVars>>

ExportOutcomes == {"up", "failed", "stuck"}

----------------------------------------------------------------------------
Next ==
    \/ \E found \in BOOLEAN : LoadTracing(found)
    \/ \E outcome \in {"ok", "disabled", "error"} : Initialize(outcome)
    \/ Run
    \/ \E r \in Req : Step(r)
    \/ \E p \in 1..MaxInit, outcome \in ExportOutcomes : Export(p, outcome)

Spec == Init /\ [][Next]_vars

\* The program with the initialisation block run up to MaxInit times before
\* it serves.  The export workers are left out of this specification: Export
\* changes nothing but the queues and the exporters' state.
NextReinit ==
    \/ \E found \in BOOLEAN : LoadTracing(found)
    \/ \E outcome \in {"ok", "disabled", "error"} : Initialize(outcome)
    \/ Reinitialize
    \/ Run
    \/ \E r \in Req : Step(r)

SpecReinit == Init /\ [][NextReinit]_vars

----------------------------------------------------------------------------
(* Properties.                                                             *)

Done(r) == pc[r] = "done"
InFlight(r) == pc[r] \notin {"idle", "done"}
\* The spans request r has opened so far.
SpansOf(r) == {id \in SpanId : id[1] = r /\ spans[id].st # "none"}
\* The view function request r was dispatched to.
HandlerOf(r) == Handler(variant, path[r])
Failed(r) == up[r].kind = "refused" \/ (up[r].kind = "reply" /\ ~IsJson(up[r].body))

\* C1: every span opened during a request is closed exactly once on every
\* exit path: no span has more than one end event, an open span has none,
\* and once the request has finished each of its spans is ended with
\* exactly one end event, whether the handler returned or raised.
SpansClosedExactlyOnce ==
    /\ \A id \in SpanId :
          /\ spans[id].ends <= 1
          /\ spans[id].st = "open" => spans[id].ends = 0
    /\ \A r \in Req : Done(r) =>
          \A id \in SpansOf(r) : spans[id].st = "ended" /\ spans[id].ends = 1

\* A finished get_data request whose outbound call failed inside the scope,
\* and a finished request that returned normally, each with its span ended.
SpansClosedWitness ==
    \E r, q \in Req :
        /\ Done(r) /\ HandlerOf(r) = "get_data" /\ resp[r].status = 500
        /\ spans[<<r, "handler">>].ends = 1
        /\ spans[<<r, "handler">>].status = "error"
        /\ Done(q) /\ resp[q].status = 200
        /\ spans[<<q, "handler">>].ends = 1

\* Depth of a span in its request: server, handler, client.
\* Innermost(r) is the deepest open span of request r.
LevelNo(l) == CASE l = "server" -> 1 [] l = "handler" -> 2 [] l = "client" -> 3
                [] OTHER -> 0
Innermost(r) ==
    LET open == {id \in SpansOf(r) : spans[id].st = "open"}
    IN  IF open = {} THEN NoSpan
        ELSE CHOOSE id \in open :
                \A o \in open : LevelNo(o[2]) <= LevelNo(id[2])

\* C9: a span's parent is the span that was active in its own request when
\* it started (none when none was active), never a span of another request;
\* spans of a request close in reverse order of opening; the active span of
\* a request is always its innermost open span, so closing a span restores
\* the one active before it; a finished request has no active span.
SpansNested ==
    /\ \A id \in SpanId : spans[id].st # "none" =>
          LET par == spans[id].parent IN
          /\ par # NoSpan =>
                /\ par[1] = id[1]
                /\ spans[par].st # "none"
                /\ LevelNo(par[2]) < LevelNo(id[2])
                /\ spans[par].st = "ended" => spans[id].st = "ended"
          /\ par = NoSpan =>
                \A o \in SpansOf(id[1]) : LevelNo(o[2]) >= LevelNo(id[2])
    /\ \A r \in Req :
          /\ current[r] = Innermost(r)
          /\ Done(r) => current[r] = NoSpan

\* Two overlapping requests: one inside the client span of its outbound
\* call, nested under its handler span and server span, the other inside
\* its handler span.
SpansNestedWitness ==
    \E r, q \in Req :
        /\ r # q
        /\ current[r] = <<r, "client">>
        /\ spans[<<r, "client">>].parent = <<r, "handler">>
        /\ spans[<<r, "handler">>].parent = <<r, "server">>
        /\ current[q] = <<q, "handler">>

\* C2: for / and /health the response does not depend on tracing: the
\* response a finished request got equals the response of the same view
\* function run with tracing in the opposite state (active where it was
\* not, a no-op span where it was recorded).
TracingAdditive ==
    \A r \in Req :
        Done(r) /\ path[r] \in {"/", "/health"} =>
            resp[r] = Respond(variant, HandlerOf(r), ~tracing, NoUp)

\* A variant that opens spans serving / and /health with 200 while tracing
\* is not active, so that each scope ran on a no-op span.
TracingAdditiveWitness ==
    /\ variant \in Traced
    /\ ~tracing
    /\ \E r, q \in Req :
          /\ Done(r) /\ path[r] = "/" /\ resp[r].status = 200
          /\ Done(q) /\ path[q] = "/health"
          /\ SpansOf(r) = {}

\* C3: a failure of the tracing initialisation at start-up never
\* terminates the process.
InitFailureSwallowed == phase # "crashed"

\* The response is 200 with the JSON object {"status": "healthy"}.
IsHealthy(rsp) ==
    /\ rsp.status = 200
    /\ IsJson(rsp.body)
    /\ ParseJson(rsp.body) = [status |-> "healthy"]

\* C4 (as stated): in all three variants a finished GET /health has status
\* 200 and body exactly {"status": "healthy"}.
HealthInAllVariants ==
    \A r \in Req : Done(r) /\ path[r] = "/health" => IsHealthy(resp[r])

\* C4 (amended): in the plain and the console variant a finished GET
\* /health has status 200 and body {"status": "healthy"}, whatever was
\* served before and whether tracing is active or not; the JSON variant has
\* no /health route and answers 404.
HealthInExamples ==
    \A r \in Req : Done(r) /\ path[r] = "/health" =>
        IF variant = "json" THEN resp[r].status = 404 ELSE IsHealthy(resp[r])

\* The console variant answering /health after an earlier request, with
\* tracing active.
HealthWitness ==
    /\ variant = "sample"
    /\ tracing
    /\ \E r, q \in Req :
          /\ r < q
          /\ Done(r)
          /\ Done(q) /\ path[q] = "/health" /\ IsHealthy(resp[q])

\* The body greets: a text with the word Hello, or a JSON object whose
\* message is "Hello World!".
IsGreeting(body) ==
    CASE body.kind = "text" -> \E i \in DOMAIN body.words : body.words[i] = "Hello,"
      [] body.kind = "json" ->
            /\ "message" \in DOMAIN ParseJson(body)
            /\ ParseJson(body)["message"] = "Hello World!"
      [] OTHER -> FALSE

\* C7: a finished GET / has status 200 and a greeting body in every
\* variant; in the JSON variant the body is a JSON object whose message
\* member is "Hello World!".
GreetingAtRoot ==
    \A r \in Req : Done(r) /\ path[r] = "/" =>
        /\ resp[r].status = 200
        /\ IsGreeting(resp[r].body)
        /\ variant = "json" =>
              /\ IsJson(resp[r].body)
              /\ ParseJson(resp[r].body) = [message |-> "Hello World!"]

\* The JSON variant having answered / with its JSON greeting.
GreetingWitness ==
    /\ variant = "json"
    /\ \E r \in Req :
          /\ Done(r) /\ path[r] = "/"
          /\ resp[r].body.pairs = << <<"message", "Hello World!">> >>

ExportDecoupledState ==
    \A r \in Req :
        /\ Done(r) => resp[r] = ViewResult(variant, HandlerOf(r), up[r])
        /\ InFlight(r) => ENABLED Step(r)
ExportDecoupledStep ==
    (\E r \in Req : Step(r)) =>
        /\ exporter' = exporter
        /\ \A p \in DOMAIN queue :
              /\ queue[p] \subseteq queue'[p]
              /\ \A id \in queue'[p] \ queue[p] :
                    spans[id].st = "open" /\ spans'[id].st = "ended"

\* C6: export failures never reach the request path: every finished
\* request has the response its view function produces, whatever the
\* exporters did; a request in flight can always take its next step, also
\* while an exporter fails or never returns; and a step of a request never
\* exports: it leaves the exporters alone and at most adds the span it ends
\* to the processors' queues.
ExportDecoupled == []ExportDecoupledState /\ [][ExportDecoupledStep]_vars

\* A request answered with 200 whose span sits in the queue of a processor
\* whose exporter never returned.
ExportDecoupledWitness ==
    \E r \in Req :
        /\ Done(r) /\ resp[r].status = 200
        /\ exporter[1] = "stuck"
        /\ <<r, "handler">> \in queue[1]

ConfigState ==
    phase \in {"ready", "serving"} =>
        IF variant \in Traced
        THEN /\ providerSet
             /\ initCount = 1
             /\ processors = <<ExporterOf(variant)>>
        ELSE processors = <<>>
ConfigFrameStep ==
    (\E r \in Req : Step(r)) =>
        UNCHANGED <<providerSet, processors, instrumented, tracing, initCount>>

\* C10: request handling leaves the tracing configuration alone.  Once the
\* console or the JSON variant has started, its provider holds exactly one
\* span processor, with the variant's exporter (the plain variant attaches
\* none itself); and no step of any request changes the provider, its
\* processors, the instrumentation or whether tracing is active.
ConfigFrame == []ConfigState /\ [][ConfigFrameStep]_vars

\* A failed /api/data request has finished while another request is in
\* flight, and the provider still holds its one processor.
ConfigFrameWitness ==
    /\ processors = <<"jaeger">>
    /\ \E r, q \in Req :
          /\ Done(r) /\ up[r] = Refused /\ resp[r].status = 500
          /\ InFlight(q)

====
